---------------------------- MODULE Spec2Model ----------------------------
(***************************************************************************)
(* pyejabberd: the descriptor-driven dispatcher EjabberdAPIClient._call_api *)
(* (client.py) and the operation descriptors (definitions.py).             *)
(*                                                                         *)
(* A call is a thread of control running _call_api; Calls are the threads  *)
(* that may be inside the client at the same time.  Each call owns the     *)
(* locals of its _call_api frame (api, arguments, response); the transport *)
(* is the environment: it either replies or raises.                        *)
(***************************************************************************)
EXTENDS Integers, Sequences, FiniteSets, TLC

(* ------------------------------ bounds -------------------------------- *)
\* number of threads that may be inside _call_api at the same time
NCalls == 2
\* the transport replies with res in 0..MaxRes, or with no res at all
MaxRes == 2

Calls == 1..NCalls

(* ------------------------------ values -------------------------------- *)
\* Python values that travel in argument mappings, tagged by their type.
S(x) == [t |-> "str", v |-> x]
I7 == [t |-> "int", v |-> "7"]
None == [t |-> "none", v |-> ""]

\* dict helpers, as the Python built-ins work
EmptyDict == [k \in {} |-> None]
Get(d, k) == IF k \in DOMAIN d THEN d[k] ELSE None
Pop(d, k) == [x \in (DOMAIN d) \ {k} |-> d[x]]
Update(d, e) == [x \in (DOMAIN d) \cup (DOMAIN e) |->
                    IF x \in DOMAIN e THEN e[x] ELSE d[x]]

(* ------------------------ client configuration ------------------------ *)
XmppDomain == "example.com"
MucService == "conference"
Username == "admin"
Password == "adminpw"

\* EjabberdAPIClient.auth: a fresh mapping per read
Auth == [user |-> S(Username), server |-> S(XmppDomain), password |-> S(Password)]
\* EjabberdAPIClient.context: a fresh mapping per read
Context == [host |-> S(XmppDomain), service |-> S(MucService)]

(* ------------------------ operation descriptors ----------------------- *)
Ops == {"Echo", "RegisteredUsers", "Register", "UnRegister", "ChangePassword",
        "CheckPasswordHash", "SetNickname", "MucOnlineRooms", "CreateRoom",
        "DestroyRoom", "GetRoomOptions"}

\* core.arguments.StringArgument(name): a required argument with the string validator
StringArgument(n) == [name |-> n, required |-> TRUE, validator |-> "string"]

\* API.authenticate as the descriptors inherit it (none of them sets it)
Authenticate(o) == FALSE

MethodOf(o) ==
    CASE o = "Echo" -> "echothisnew"
      [] o = "RegisteredUsers" -> "registered_users"
      [] o = "Register" -> "register"
      [] o = "UnRegister" -> "unregister"
      [] o = "ChangePassword" -> "change_password"
      [] o = "CheckPasswordHash" -> "check_password_hash"
      [] o = "SetNickname" -> "set_nickname"
      [] o = "MucOnlineRooms" -> "muc_online_rooms"
      [] o = "CreateRoom" -> "create_room"
      [] o = "DestroyRoom" -> "destroy_room"
      [] o = "GetRoomOptions" -> "get_room_options"

ArgumentsOf(o) ==
    CASE o = "Echo" -> <<StringArgument("sentence")>>
      [] o = "RegisteredUsers" -> <<StringArgument("host")>>
      [] o = "Register" ->
            <<StringArgument("user"), StringArgument("host"), StringArgument("password")>>
      [] o = "UnRegister" -> <<StringArgument("user"), StringArgument("host")>>
      [] o = "ChangePassword" ->
            <<StringArgument("user"), StringArgument("host"), StringArgument("newpass")>>
      [] o = "CheckPasswordHash" ->
            <<StringArgument("user"), StringArgument("host"),
              StringArgument("passwordhash"), StringArgument("hashmethod")>>
      [] o = "SetNickname" ->
            <<StringArgument("user"), StringArgument("host"), StringArgument("nickname")>>
      [] o = "MucOnlineRooms" -> <<StringArgument("host")>>
      [] o = "CreateRoom" ->
            <<StringArgument("name"), StringArgument("service"), StringArgument("host")>>
      [] o = "DestroyRoom" ->
            <<StringArgument("name"), StringArgument("service"), StringArgument("host")>>
      [] o = "GetRoomOptions" -> <<StringArgument("name"), StringArgument("service")>>

\* the class attributes of the descriptors, shared by every call
Descriptors == [o \in Ops |-> [method |-> MethodOf(o),
                               arguments |-> ArgumentsOf(o),
                               authenticate |-> Authenticate(o)]]

ArgNames(o) == {ArgumentsOf(o)[i].name : i \in 1..Len(ArgumentsOf(o))}

(* ------------------------------- hooks -------------------------------- *)
\* utils.format_password_hash_sha on the passwords of the model
Sha1(p) == CASE p = "secret" -> "e5e9fa1ba31ecd1ae84f75caaa474f3a663f05f4"
             [] p = "alice" -> "522b276a356bdf39013dfabea2cd43e141ecc9e8"
             [] OTHER -> "sha1-of-other"

\* positional parameters _call_api passes to transform_arguments: the context
PassedToTransformArguments == 1
\* positional parameters CheckPasswordHash.transform_arguments(self, **kwargs) takes
CheckPasswordHashTransformAccepts == 0
\* positional parameters _call_api passes to validate_response and
\* transform_response: context, api, arguments, response
PassedToResponseHooks == 4
\* positional parameters the hooks (self, api, arguments, response) of
\* definitions.py take
ResponseHookAccepts == 3

\* A hook's outcome: err = "" when it returned, else the exception's name.
Returned(x) == [err |-> "", val |-> x]
Raised(e) == [err |-> e, val |-> EmptyDict]

\* API.transform_arguments as the base class gives it: the context is accepted
\* and the arguments are returned as they are
DefaultTransformArguments(kw) == Returned(kw)

\* CheckPasswordHash.transform_arguments, the body
CheckPasswordHashTransform(kw) ==
    IF "password" \notin DOMAIN kw THEN Raised("KeyError")
    ELSE IF kw["password"].t # "str" THEN Raised("TypeError")
    ELSE Returned(Update(Pop(kw, "password"),
                         [passwordhash |-> S(Sha1(kw["password"].v)),
                          hashmethod |-> S("sha")]))

\* api.transform_arguments(self.context, **arguments): Python binds the
\* parameters first and raises TypeError when the positional ones passed are
\* not the ones the method takes
TransformArguments(o, kw) ==
    IF o = "CheckPasswordHash"
    THEN IF PassedToTransformArguments # CheckPasswordHashTransformAccepts
         THEN Raised("TypeError")
         ELSE CheckPasswordHashTransform(kw)
    ELSE DefaultTransformArguments(kw)

\* the string validator: validate(value) fails unless value is textual
StringValidate(v) == v.t = "str"
Validate(validator, v) == IF validator = "string" THEN StringValidate(v) ELSE TRUE

\* faulty variant: the loop without its presence check: a missing argument goes to
\* the validator as None
CheckDescriptorNoPresence(args, descs, i) ==
    IF ~Validate(descs[i].validator, Get(args, descs[i].name))
    THEN "ValidationError"
    ELSE ""

\* faulty variant: the loop without the validator call
CheckDescriptorNoValidator(args, descs, i) ==
    IF descs[i].required /\ descs[i].name \notin DOMAIN args
    THEN "IllegalArgumentError"
    ELSE ""

\* faulty variant: two passes: the presence of every required argument is checked
\* before any validator runs
CheckPresenceOfAllFirst(args, descs, i) ==
    IF \E j \in 1..Len(descs) : descs[j].required /\ descs[j].name \notin DOMAIN args
    THEN "IllegalArgumentError"
    ELSE IF ~Validate(descs[i].validator, Get(args, descs[i].name))
         THEN "ValidationError"
         ELSE ""

\* One turn of the validation loop of _call_api on one descriptor:
\* the presence check, then the validator on arguments.get(name).
CheckDescriptor(args, descs, i) ==
    IF descs[i].required /\ descs[i].name \notin DOMAIN args
    THEN "IllegalArgumentError"
    ELSE IF ~Validate(descs[i].validator, Get(args, descs[i].name))
         THEN "ValidationError"
         ELSE ""

\* the transport's reply: a mapping that holds res or not
NoRes == [has |-> FALSE, res |-> 0]
Res(r) == [has |-> TRUE, res |-> r]
Replies == {Res(r) : r \in 0..MaxRes} \cup {NoRes}

\* Register.validate_response, the body
RegisterValidateResponse(reply) ==
    IF reply.has /\ reply.res = 1 THEN "UserAlreadyRegisteredError" ELSE ""

\* API.validate_response as the base class gives it: accepts what the
\* dispatcher passes and does nothing
DefaultValidateResponse(reply) == ""

\* api.validate_response(self.context, api, arguments, response)
ValidateResponse(o, reply) ==
    IF o = "Register"
    THEN IF PassedToResponseHooks # ResponseHookAccepts
         THEN "TypeError"
         ELSE RegisterValidateResponse(reply)
    ELSE DefaultValidateResponse(reply)

\* the bodies of the transform_response hooks: response.get('res') == 0 for
\* the status operations, a field of the reply for the others
TransformResponseBody(o, reply) ==
    IF o \in {"Echo", "RegisteredUsers", "MucOnlineRooms", "GetRoomOptions"}
    THEN "payload"
    ELSE IF reply.has /\ reply.res = 0 THEN "True" ELSE "False"

\* api.transform_response(self.context, api, arguments, response): every
\* descriptor of definitions.py overrides it
TransformResponse(o, reply) ==
    IF PassedToResponseHooks # ResponseHookAccepts
    THEN Raised("TypeError")
    ELSE Returned(TransformResponseBody(o, reply))

(* ---------------------------- the dispatcher --------------------------- *)
\* faulty variant: a copy that drains the mapping it copies from
DrainingCopy(kw) == [kwargs |-> EmptyDict, arguments |-> kw]

\* arguments = copy.copy(kwargs): the copy, and the mapping copied from
CopyArguments(kw) == [kwargs |-> kw, arguments |-> kw]

\* faulty variant: the locals kept on the client object, which the threads share
SharedFrame(c) == 1

\* where a call keeps the locals of its _call_api frame: in its own frame
Frame(c) == c

\* faulty variant: the credentials passed whatever the descriptor says
AlwaysWithAuth(o, args) == <<Auth, args>>

\* the positional parameters handed to the transport method
TransportParams(o, args) ==
    IF ~Authenticate(o) THEN <<args>> ELSE <<Auth, args>>

\* faulty variant: the transport method is invoked again after it raised
RetryAfterFault == TRUE

\* what _call_api does when the transport method raises: nothing, the
\* exception leaves _call_api; TRUE would mean the call is made again
RetryOnFault == FALSE

\* what the transport did with an invocation
Pending == [kind |-> "pending", reply |-> NoRes]
Answered(r) == [kind |-> "reply", reply |-> r]
Fault == [kind |-> "fault", reply |-> NoRes]

NoOutcome == [kind |-> "none", val |-> ""]
RaisedOut(e) == [kind |-> "raised", val |-> e]
ReturnedOut(x) == [kind |-> "returned", val |-> x]

VARIABLES
    pc,          \* pc[c]: where call c is in _call_api
    via,         \* via[c]: the public method the call came through, or "_call_api"
    op,          \* op[c]: the descriptor class the call was given (api_class)
    kwargs,      \* kwargs[c]: the caller's argument mapping
    given,       \* given[c]: what kwargs[c] held when the call began
    arguments,   \* arguments[f]: the local `arguments`
    idx,         \* idx[f]: position of the validation loop, 0 before it starts
    sent,        \* sent[c]: the transport invocations the call made, in order,
                 \* each with what the transport answered
    reply,       \* reply[f]: the local `response`
    hooks,       \* hooks[c]: response hooks the call invoked
    outcome,     \* outcome[c]: what the call returned or raised
    descriptors  \* the descriptors' class attributes

vars == <<pc, via, op, kwargs, given, arguments, idx, sent, reply, hooks,
          outcome, descriptors>>

Init ==
    /\ pc = [c \in Calls |-> "idle"]
    /\ via = [c \in Calls |-> ""]
    /\ op = [c \in Calls |-> "Echo"]
    /\ kwargs = [c \in Calls |-> EmptyDict]
    /\ given = [c \in Calls |-> EmptyDict]
    /\ arguments = [c \in Calls |-> EmptyDict]
    /\ idx = [c \in Calls |-> 0]
    /\ sent = [c \in Calls |-> << >>]
    /\ reply = [c \in Calls |-> NoRes]
    /\ hooks = [c \in Calls |-> {}]
    /\ outcome = [c \in Calls |-> NoOutcome]
    /\ descriptors = Descriptors

\* _call_api(api_class, **kwargs) is entered: api = api_class()
Enter(c, m, o, kw) ==
    /\ pc[c] = "idle"
    /\ pc' = [pc EXCEPT ![c] = "called"]
    /\ via' = [via EXCEPT ![c] = m]
    /\ op' = [op EXCEPT ![c] = o]
    /\ kwargs' = [kwargs EXCEPT ![c] = kw]
    /\ given' = [given EXCEPT ![c] = kw]
    /\ UNCHANGED <<arguments, idx, sent, reply, hooks, outcome, descriptors>>

\* the values a caller may pass for a parameter
PassValues == {S("alice"), I7, None}
SecretValues == {S("secret"), I7}
ValuesFor(k) == IF k \in {"password", "newpass"} THEN SecretValues ELSE PassValues

(* the public methods of the client *)
echo(c) ==
    \E s \in PassValues : Enter(c, "echo", "Echo", [sentence |-> s])

registered_users(c) ==
    Enter(c, "registered_users", "RegisteredUsers", EmptyDict)

register(c) ==
    \E u \in PassValues, p \in SecretValues :
        Enter(c, "register", "Register", [user |-> u, password |-> p])

unregister(c) ==
    \E u \in PassValues : Enter(c, "unregister", "UnRegister", [user |-> u])

change_password(c) ==
    \E u \in PassValues, p \in SecretValues :
        Enter(c, "change_password", "ChangePassword", [user |-> u, newpass |-> p])

check_password_hash(c) ==
    \E u \in PassValues, p \in SecretValues :
        Enter(c, "check_password_hash", "CheckPasswordHash",
              [user |-> u, password |-> p])

set_nickname(c) ==
    \E u \in PassValues, n \in PassValues :
        Enter(c, "set_nickname", "SetNickname", [user |-> u, nickname |-> n])

\* the keys a direct caller of _call_api may pass for a descriptor
CallerKeys(o) == ArgNames(o) \cup (IF o = "CheckPasswordHash" THEN {"password"} ELSE {})

KwargsOver(D) == {kw \in [D -> PassValues \cup SecretValues] :
                    \A k \in D : kw[k] \in ValuesFor(k)}

\* _call_api called with a descriptor and any argument mapping
CallApi(c) ==
    \E o \in Ops : \E D \in SUBSET CallerKeys(o) : \E kw \in KwargsOver(D) :
        Enter(c, "_call_api", o, kw)

\* lines 179-183: copy the arguments, run the transform hook
CopyAndTransform(c) ==
    /\ pc[c] = "called"
    /\ LET cp == CopyArguments(kwargs[c])
           t == TransformArguments(op[c], cp.arguments)
       IN /\ kwargs' = [kwargs EXCEPT ![c] = cp.kwargs]
          /\ IF t.err # ""
             THEN /\ pc' = [pc EXCEPT ![c] = "done"]
                  /\ outcome' = [outcome EXCEPT ![c] = RaisedOut(t.err)]
                  /\ UNCHANGED <<arguments, idx>>
             ELSE /\ pc' = [pc EXCEPT ![c] = "validating"]
                  /\ arguments' = [arguments EXCEPT ![Frame(c)] = t.val]
                  /\ idx' = [idx EXCEPT ![Frame(c)] = 1]
                  /\ UNCHANGED outcome
    /\ UNCHANGED <<via, op, given, sent, reply, hooks, descriptors>>

\* lines 186-195: one turn of the validation loop
ValidateArgument(c) ==
    /\ pc[c] = "validating"
    /\ idx[Frame(c)] <= Len(descriptors[op[c]].arguments)
    /\ LET e == CheckDescriptor(arguments[Frame(c)],
                                descriptors[op[c]].arguments, idx[Frame(c)])
       IN IF e # ""
          THEN /\ pc' = [pc EXCEPT ![c] = "done"]
               /\ outcome' = [outcome EXCEPT ![c] = RaisedOut(e)]
               /\ UNCHANGED idx
          ELSE /\ idx' = [idx EXCEPT ![Frame(c)] = @ + 1]
               /\ UNCHANGED <<pc, outcome>>
    /\ UNCHANGED <<via, op, kwargs, given, arguments, sent, reply, hooks, descriptors>>

\* lines 198-204: the loop is over, the transport method is invoked
InvokeTransport(c) ==
    /\ pc[c] = "validating"
    /\ idx[Frame(c)] > Len(descriptors[op[c]].arguments)
    /\ pc' = [pc EXCEPT ![c] = "sent"]
    /\ sent' = [sent EXCEPT ![c] =
                  Append(@, [method |-> descriptors[op[c]].method,
                             params |-> TransportParams(op[c], arguments[Frame(c)]),
                             answer |-> Pending])]
    /\ UNCHANGED <<via, op, kwargs, given, arguments, idx, reply, hooks, outcome,
                   descriptors>>

\* the transport returns a reply
TransportReply(c) ==
    /\ pc[c] = "sent"
    /\ \E r \in Replies :
          /\ reply' = [reply EXCEPT ![Frame(c)] = r]
          /\ sent' = [sent EXCEPT ![c][Len(sent[c])].answer = Answered(r)]
    /\ pc' = [pc EXCEPT ![c] = "replied"]
    /\ UNCHANGED <<via, op, kwargs, given, arguments, idx, hooks, outcome,
                   descriptors>>

\* the transport raises: the exception leaves _call_api
TransportFault(c) ==
    /\ pc[c] = "sent"
    /\ sent' = [sent EXCEPT ![c][Len(sent[c])].answer = Fault]
    /\ IF RetryOnFault
       THEN /\ pc' = [pc EXCEPT ![c] = "validating"]
            /\ UNCHANGED outcome
       ELSE /\ pc' = [pc EXCEPT ![c] = "done"]
            /\ outcome' = [outcome EXCEPT ![c] = RaisedOut("TransportError")]
    /\ UNCHANGED <<via, op, kwargs, given, arguments, idx, reply, hooks, descriptors>>

\* line 207: the validate_response hook
CheckResponse(c) ==
    /\ pc[c] = "replied"
    /\ hooks' = [hooks EXCEPT ![c] = @ \cup {"validate_response"}]
    /\ LET e == ValidateResponse(op[c], reply[Frame(c)])
       IN IF e # ""
          THEN /\ pc' = [pc EXCEPT ![c] = "done"]
               /\ outcome' = [outcome EXCEPT ![c] = RaisedOut(e)]
          ELSE /\ pc' = [pc EXCEPT ![c] = "checked"]
               /\ UNCHANGED outcome
    /\ UNCHANGED <<via, op, kwargs, given, arguments, idx, sent, reply, descriptors>>

\* lines 210-212: the transform_response hook and the return
Finish(c) ==
    /\ pc[c] = "checked"
    /\ hooks' = [hooks EXCEPT ![c] = @ \cup {"transform_response"}]
    /\ LET t == TransformResponse(op[c], reply[Frame(c)])
       IN outcome' = [outcome EXCEPT ![c] =
                        IF t.err # "" THEN RaisedOut(t.err) ELSE ReturnedOut(t.val)]
    /\ pc' = [pc EXCEPT ![c] = "done"]
    /\ UNCHANGED <<via, op, kwargs, given, arguments, idx, sent, reply, descriptors>>

\* the caller has its result or its exception; the frame of _call_api is gone
\* and the thread may call again
Leave(c) ==
    /\ pc[c] = "done"
    /\ pc' = [pc EXCEPT ![c] = "idle"]
    /\ via' = [via EXCEPT ![c] = ""]
    /\ op' = [op EXCEPT ![c] = "Echo"]
    /\ kwargs' = [kwargs EXCEPT ![c] = EmptyDict]
    /\ given' = [given EXCEPT ![c] = EmptyDict]
    /\ arguments' = [arguments EXCEPT ![Frame(c)] = EmptyDict]
    /\ idx' = [idx EXCEPT ![Frame(c)] = 0]
    /\ sent' = [sent EXCEPT ![c] = << >>]
    /\ reply' = [reply EXCEPT ![Frame(c)] = NoRes]
    /\ hooks' = [hooks EXCEPT ![c] = {}]
    /\ outcome' = [outcome EXCEPT ![c] = NoOutcome]
    /\ UNCHANGED descriptors

Step(c) ==
    \/ CopyAndTransform(c)
    \/ ValidateArgument(c)
    \/ InvokeTransport(c)
    \/ TransportReply(c)
    \/ TransportFault(c)
    \/ CheckResponse(c)
    \/ Finish(c)
    \/ Leave(c)

PublicCall(c) ==
    \/ echo(c)
    \/ registered_users(c)
    \/ register(c)
    \/ unregister(c)
    \/ change_password(c)
    \/ check_password_hash(c)
    \/ set_nickname(c)

\* one thread: every public method and every direct call of _call_api
Next == PublicCall(1) \/ CallApi(1) \/ Step(1)

Spec == Init /\ [][Next]_vars

(* Several threads inside the client at once.  Each thread calls a public  *)
(* method, or _call_api with every declared argument present.              *)
ConcValues == {S("alice"), S("secret")}

ConcCallApi(c) ==
    \E o \in Ops : \E v \in ConcValues :
        Enter(c, "_call_api", o, [k \in ArgNames(o) |-> v])

NextConc == \E c \in Calls : PublicCall(c) \/ ConcCallApi(c) \/ Step(c)

SpecConc == Init /\ [][NextConc]_vars

(* ======================= the claims of the specification ================ *)
Descs(c) == descriptors[op[c]].arguments
\* the transformed arguments of call c exist: the validation loop has begun
Transformed(c) == pc[c] # "idle" /\ idx[c] >= 1
\* descriptor d names a required argument the mapping does not hold
Missing(args, d) == d.required /\ d.name \notin DOMAIN args
\* the mapping holds a value for descriptor d that is not textual
Invalid(args, d) == d.name \in DOMAIN args /\ args[d.name].t # "str"
MissingAt(c) == {i \in 1..Len(Descs(c)) : Missing(arguments[c], Descs(c)[i])}
InvalidAt(c) == {i \in 1..Len(Descs(c)) : Invalid(arguments[c], Descs(c)[i])}
Least(F) == CHOOSE i \in F : \A j \in F : i <= j
IsStr(v) == v.t = "str"

C3_RegisterReplyOutcome ==
    \A c \in Calls :
        (/\ pc[c] = "done" /\ op[c] = "Register"
         /\ sent[c] # << >> /\ sent[c][1].answer.kind = "reply")
            => LET r == sent[c][1].answer.reply
               IN outcome[c] =
                    IF r.has /\ r.res = 1 THEN RaisedOut("UserAlreadyRegisteredError")
                    ELSE IF r.has /\ r.res = 0 THEN ReturnedOut("True")
                    ELSE ReturnedOut("False")

\* C4: a CheckPasswordHash call given string user, host and password hands
\* the transport a mapping with passwordhash = sha1(password), hashmethod =
\* "sha" and no password key.
C4_PasswordHashedBeforeDispatch ==
    \A c \in Calls :
        (/\ pc[c] = "done" /\ op[c] = "CheckPasswordHash"
         /\ DOMAIN given[c] = {"user", "host", "password"}
         /\ \A k \in DOMAIN given[c] : IsStr(given[c][k]))
            => /\ Len(sent[c]) = 1
               /\ LET a == sent[c][1].params[Len(sent[c][1].params)]
                  IN /\ "password" \notin DOMAIN a
                     /\ Get(a, "passwordhash") = S(Sha1(given[c]["password"].v))
                     /\ Get(a, "hashmethod") = S("sha")

\* C5: every transport invocation of a call whose descriptor has authenticate
\* false passes exactly one parameter, the transformed arguments, and never
\* the credentials; two parameters, the credentials first, are passed only
\* when authenticate is true.
C5_NoCredentialsUnlessAuthenticate ==
    \A c \in Calls : \A k \in 1..Len(sent[c]) :
        LET inv == sent[c][k]
        IN /\ inv.method = descriptors[op[c]].method
           /\ ~descriptors[op[c]].authenticate =>
                /\ Len(inv.params) = 1
                /\ inv.params[1] = arguments[c]
                /\ \A p \in 1..Len(inv.params) : inv.params[p] # Auth
           /\ Len(inv.params) # 1 =>
                /\ descriptors[op[c]].authenticate
                /\ inv.params = <<Auth, arguments[c]>>

\* a call with authenticate false has invoked the transport
C5_Witness ==
    \E c \in Calls :
        /\ ~descriptors[op[c]].authenticate
        /\ Len(sent[c]) = 1
        /\ sent[c][1].params = <<arguments[c]>>

\* the public methods C6 enumerates
C6Methods == {"registered_users", "register", "unregister", "change_password",
              "check_password_hash", "set_nickname"}

\* C6: a call through a public method with string values passes the
\* required-argument check and reaches the transport with host equal to the
\* configured xmpp domain.
C6_PublicCallReachesTransportWithHost ==
    \A c \in Calls :
        (/\ pc[c] = "done" /\ via[c] \in C6Methods
         /\ \A k \in DOMAIN given[c] : IsStr(given[c][k]))
            => /\ Len(sent[c]) = 1
               /\ Get(sent[c][1].params[Len(sent[c][1].params)], "host") = S(XmppDomain)

\* C7: a call invokes the transport at most once; when the transport raised,
\* the call is over with that exception, no response hook was invoked and
\* nothing was returned.
C7_NoRetryFaultPropagates ==
    \A c \in Calls :
        /\ Len(sent[c]) <= 1
        /\ \A k \in 1..Len(sent[c]) :
             sent[c][k].answer.kind = "fault"
                => /\ pc[c] = "done"
                   /\ outcome[c] = RaisedOut("TransportError")
                   /\ hooks[c] = {}

\* a call whose transport invocation raised
C7_Witness ==
    \E c \in Calls :
        /\ pc[c] = "done"
        /\ Len(sent[c]) = 1
        /\ sent[c][1].answer.kind = "fault"

RECURSIVE FirstFailure(_, _, _)
FirstFailure(args, descs, i) ==
    IF i > Len(descs) THEN 0
    ELSE IF Missing(args, descs[i]) \/ Invalid(args, descs[i]) THEN i
    ELSE FirstFailure(args, descs, i + 1)

\* what a call does when it runs alone
AloneSent(o, kw) ==
    LET t == TransformArguments(o, kw)
    IN IF t.err # "" \/ FirstFailure(t.val, ArgumentsOf(o), 1) # 0
       THEN << >>
       ELSE <<[method |-> MethodOf(o), params |-> TransportParams(o, t.val)]>>

AloneOutcome(o, kw, answer) ==
    LET t == TransformArguments(o, kw)
        f == FirstFailure(t.val, ArgumentsOf(o), 1)
    IN IF t.err # "" THEN RaisedOut(t.err)
       ELSE IF f # 0
       THEN RaisedOut(IF Missing(t.val, ArgumentsOf(o)[f])
                      THEN "IllegalArgumentError" ELSE "ValidationError")
       ELSE IF answer.kind = "fault" THEN RaisedOut("TransportError")
       ELSE IF ValidateResponse(o, answer.reply) # ""
       THEN RaisedOut(ValidateResponse(o, answer.reply))
       ELSE IF TransformResponse(o, answer.reply).err # ""
       THEN RaisedOut(TransformResponse(o, answer.reply).err)
       ELSE ReturnedOut(TransformResponse(o, answer.reply).val)

Invocations(c) ==
    [k \in 1..Len(sent[c]) |-> [method |-> sent[c][k].method,
                                params |-> sent[c][k].params]]

\* C9: whatever the interleaving of the calls, what each call hands to the
\* transport and how each call ends are what the call does alone, and the
\* descriptors stay as they were defined.
C9_CallsDoNotInterfere ==
    /\ descriptors = Descriptors
    /\ \A c \in Calls :
         pc[c] # "idle" =>
            /\ Invocations(c) \in {<< >>, AloneSent(op[c], given[c])}
            /\ pc[c] \in {"sent", "replied", "checked"} => sent[c] # << >>
            /\ pc[c] = "done" =>
                 /\ Invocations(c) = AloneSent(op[c], given[c])
                 /\ outcome[c] =
                      AloneOutcome(op[c], given[c],
                                   IF sent[c] = << >> THEN Pending
                                   ELSE sent[c][1].answer)

\* two calls with different arguments are at the transport at the same time
C9_Witness ==
    \E c1 \in Calls, c2 \in Calls :
        /\ c1 # c2
        /\ pc[c1] = "sent" /\ pc[c2] = "replied"
        /\ sent[c1][1].params # sent[c2][1].params

=============================================================================
